---- MODULE Spec2Model ----
(***************************************************************************)
(* Model of app.py (client form): draft store, attachment naming and      *)
(* store, ledger (CSV) writer, and the script run that ties them.         *)
(*                                                                         *)
(* Text is modelled as sequences of one-character strings, so that        *)
(* formatting, escaping and parsing are computed and not assumed.         *)
(***************************************************************************)
EXTENDS Integers, Sequences, FiniteSets, TLC

\* ------------------------------------------------------------------------
\* Characters and small text helpers
\* ------------------------------------------------------------------------

Range(f) == {f[i] : i \in DOMAIN f}

\* str.lower() on one character (the upper-case letters the inputs use)
LowerChar(c) ==
    CASE c = "A" -> "a" [] c = "B" -> "b" [] c = "D" -> "d" [] c = "F" -> "f"
      [] c = "G" -> "g" [] c = "N" -> "n" [] c = "P" -> "p"
      [] OTHER -> c

Lower(s) == [i \in 1..Len(s) |-> LowerChar(s[i])]

\* white space: \s of the re module, what str.strip() and int() drop
SpaceChars == {" ", "\t", "\n", "\r"}

IsSpace(c) == c \in SpaceChars

Digits == {"0","1","2","3","4","5","6","7","8","9"}

\* \w with re.UNICODE: letters of any script, digits, underscore
IsWord(c) ==
    c \in {"a","b","c","d","e","f","g","h","i","j","k","l","m","n","o","p","q","r",
          "s","t","u","v","w","x","y","z",
          "A","B","D","F","G","N","P", "_", "é"} \cup Digits

Min(S) == CHOOSE x \in S : \A y \in S : x <= y
Max(S) == CHOOSE x \in S : \A y \in S : y <= x

\* s without its leading characters of drop
LStrip(s, drop) ==
    LET keep == {i \in 1..Len(s) : s[i] \notin drop}
    IN  IF keep = {} THEN <<>> ELSE SubSeq(s, Min(keep), Len(s))

\* s without its trailing characters of drop
RStrip(s, drop) ==
    LET keep == {i \in 1..Len(s) : s[i] \notin drop}
    IN  IF keep = {} THEN <<>> ELSE SubSeq(s, 1, Max(keep))

Strip(s, drop) == RStrip(LStrip(s, drop), drop)

\* re.sub(r"[^\w\s-]", "", s)
RemoveNonWord(s) == SelectSeq(s, LAMBDA c : IsWord(c) \/ IsSpace(c) \/ c = "-")

\* re.sub(r"[\s-]+", "_", s): one "_" for each run of spaces and hyphens
CollapseRuns(s) ==
    LET sep(i) == IsSpace(s[i]) \/ s[i] = "-"
        heads == SelectSeq([i \in 1..Len(s) |-> i],
                           LAMBDA i : ~sep(i) \/ i = 1 \/ ~sep(i - 1))
    IN  [k \in 1..Len(heads) |-> IF sep(heads[k]) THEN "_" ELSE s[heads[k]]]

\* slugify without its last line: an empty result is returned as it is
slugifyNoSentinel(s) ==
    Strip(CollapseRuns(RemoveNonWord(Lower(Strip(s, SpaceChars)))), {"_"})

slugify(s) ==
    LET s1 == Lower(Strip(s, SpaceChars))
        s2 == RemoveNonWord(s1)
        s3 == Strip(CollapseRuns(s2), {"_"})
    IN  IF s3 = <<>> THEN <<"x">> ELSE s3

\* ------------------------------------------------------------------------
\* Python values held by the draft: str, list, dict (insertion ordered), None
\* Every value is a record [t, s, a] so that values of any shape compare.
\* ------------------------------------------------------------------------

PyStr(s) == [t |-> "str", s |-> s, a |-> <<>>]
PyList(items) == [t |-> "list", s |-> <<>>, a |-> items]
PyDict(items) == [t |-> "dict", s |-> <<>>, a |-> items]
PyNone == [t |-> "none", s |-> <<>>, a |-> <<>>]
\* one key/value item of a dict
KV(k, v) == [t |-> "kv", s |-> k, a |-> <<v>>]

EmptyDict == PyDict(<<>>)

HasKey(d, k) == \E i \in 1..Len(d.a) : d.a[i].s = k

\* d[k] for a key that is present
DictAt(d, k) == d.a[CHOOSE i \in 1..Len(d.a) : d.a[i].s = k].a[1]

\* dict.get(k, default); only a dict has .get (AttributeError otherwise)
HasGet(v) == v.t = "dict"
DictGet(d, k, default) == IF HasKey(d, k) THEN DictAt(d, k) ELSE default

\* d[k] = v: in place when the key exists, appended otherwise
DictSet(d, k, v) ==
    IF HasKey(d, k)
    THEN PyDict([i \in 1..Len(d.a) |->
                    IF d.a[i].s = k THEN KV(k, v) ELSE d.a[i]])
    ELSE PyDict(Append(d.a, KV(k, v)))

DictKeys(d) == [i \in 1..Len(d.a) |-> d.a[i].s]

\* ------------------------------------------------------------------------
\* json.dumps(value, ensure_ascii=False, indent=2)
\* ------------------------------------------------------------------------

\* the escapes without the one of the quote
EscapeCharNoQuote(c) ==
    CASE c = "\\" -> <<"\\", "\\">>
      [] c = "\n" -> <<"\\", "n">>
      [] c = "\r" -> <<"\\", "r">>
      [] c = "\t" -> <<"\\", "t">>
      [] OTHER -> <<c>>

\* py_encode_basestring: the escapes of the characters the inputs use
EscapeChar(c) ==
    CASE c = "\"" -> <<"\\", "\"">>
      [] c = "\\" -> <<"\\", "\\">>
      [] c = "\n" -> <<"\\", "n">>
      [] c = "\r" -> <<"\\", "r">>
      [] c = "\t" -> <<"\\", "t">>
      [] OTHER -> <<c>>

RECURSIVE EscapeRange(_, _, _)
\* the escapes of s[lo..hi], one after the other
EscapeRange(s, lo, hi) ==
    IF lo > hi THEN <<>>
    ELSE IF lo = hi THEN EscapeChar(s[lo])
    ELSE LET mid == (lo + hi) \div 2
         IN  EscapeRange(s, lo, mid) \o EscapeRange(s, mid + 1, hi)

EscapeStr(s) == EscapeRange(s, 1, Len(s))

JsonStr(s) == <<"\"">> \o EscapeStr(s) \o <<"\"">>

IndentStep == 2

\* newline followed by the indentation of a nesting level
NewlineIndent(level) == <<"\n">> \o [i \in 1..(IndentStep * level) |-> " "]

RECURSIVE JsonDump(_, _)
RECURSIVE JsonItems(_, _, _)
\* the items of a list or dict, each on its own line, separated by ","
JsonItems(items, level, i) ==
    LET it == items[i]
        one == IF it.t = "kv"
               THEN JsonStr(it.s) \o <<":", " ">> \o JsonDump(it.a[1], level)
               ELSE JsonDump(it, level)
    IN  NewlineIndent(level) \o one \o
        (IF i = Len(items) THEN <<>>
         ELSE <<",">> \o JsonItems(items, level, i + 1))

JsonDump(v, level) ==
    CASE v.t = "str" -> JsonStr(v.s)
      [] v.t = "none" -> <<"n","u","l","l">>
      [] v.t = "list" ->
            IF v.a = <<>> THEN <<"[", "]">>
            ELSE <<"[">> \o JsonItems(v.a, level + 1, 1)
                 \o NewlineIndent(level) \o <<"]">>
      [] v.t = "dict" ->
            IF v.a = <<>> THEN <<"{", "}">>
            ELSE <<"{">> \o JsonItems(v.a, level + 1, 1)
                 \o NewlineIndent(level) \o <<"}">>

json_dumps(v) == JsonDump(v, 0)

\* ------------------------------------------------------------------------
\* json.loads(text): a result [ok, v, i]; ok = FALSE is JSONDecodeError
\* ------------------------------------------------------------------------

ParseFail == [ok |-> FALSE, v |-> PyNone, i |-> 0]
ParseOk(v, i) == [ok |-> TRUE, v |-> v, i |-> i]

RECURSIVE SkipWs(_, _)
\* the first position from i on that holds no white space (Len(s) + 1: none)
SkipWs(s, i) ==
    IF i <= Len(s) /\ IsSpace(s[i]) THEN SkipWs(s, i + 1) ELSE i

\* the character an escape sequence stands for; "" when it is not one
UnescapeChar(c) ==
    CASE c = "\"" -> "\""
      [] c = "\\" -> "\\"
      [] c = "/" -> "/"
      [] c = "n" -> "\n"
      [] c = "r" -> "\r"
      [] c = "t" -> "\t"
      [] OTHER -> ""



ScanWindow == 16

RECURSIVE NextSpecial(_, _)
\* the first position from i on that ends a run of plain characters: a
\* quote, a backslash or a control character (Len(s) + 1: none); the text is
\* scanned a window at a time
NextSpecial(s, i) ==
    LET hi == IF i + ScanWindow - 1 < Len(s) THEN i + ScanWindow - 1 ELSE Len(s)
        hits == {j \in i..hi : s[j] \in {"\"", "\\", "\n", "\r", "\t"}}
    IN  IF hits # {} THEN Min(hits)
        ELSE IF hi >= Len(s) THEN Len(s) + 1
        ELSE NextSpecial(s, hi + 1)

RECURSIVE ParseStrBody(_, _, _)
\* the run of plain characters s[i..j-1] read, then the closing quote or an
\* escape at j
StrAfterRun(s, i, j, acc) ==
    IF j > Len(s) THEN ParseFail
    ELSE IF s[j] = "\"" THEN ParseOk(PyStr(acc \o SubSeq(s, i, j - 1)), j + 1)
    ELSE IF s[j] = "\\"
         THEN IF j + 1 > Len(s) \/ UnescapeChar(s[j + 1]) = "" THEN ParseFail
              ELSE ParseStrBody(s, j + 2,
                                Append(acc \o SubSeq(s, i, j - 1),
                                       UnescapeChar(s[j + 1])))
    ELSE ParseFail

\* scanstring, from the character after the opening quote
ParseStrBody(s, i, acc) == StrAfterRun(s, i, NextSpecial(s, i), acc)

RECURSIVE ParseValue(_, _)
RECURSIVE ParseArrayItems(_, _, _)
RECURSIVE ParseObjectItems(_, _, _)

\* an item v read, the text continues at j with "," or "]"
ArrayAfterItem(s, j, items) ==
    IF j > Len(s) THEN ParseFail
    ELSE IF s[j] = "," THEN ParseArrayItems(s, j + 1, items)
    ELSE IF s[j] = "]" THEN ParseOk(PyList(items), j + 1)
    ELSE ParseFail

ArrayItem(s, r, acc) ==
    IF ~r.ok THEN ParseFail
    ELSE ArrayAfterItem(s, SkipWs(s, r.i), Append(acc, r.v))

\* after "[" or ",": a value, then "," or "]"
ParseArrayItems(s, i, acc) == ArrayItem(s, ParseValue(s, SkipWs(s, i)), acc)

\* a member read, the text continues at j with "," or "}"
ObjectAfterMember(s, j, d) ==
    IF j > Len(s) THEN ParseFail
    ELSE IF s[j] = "," THEN ParseObjectItems(s, j + 1, d)
    ELSE IF s[j] = "}" THEN ParseOk(d, j + 1)
    ELSE ParseFail

ObjectValue(s, key, r, acc) ==
    IF ~r.ok THEN ParseFail
    ELSE ObjectAfterMember(s, SkipWs(s, r.i), DictSet(acc, key, r.v))

\* the key read, the text continues at c with ":" and the value
ObjectColon(s, key, c, acc) ==
    IF c <= Len(s) /\ s[c] = ":"
    THEN ObjectValue(s, key, ParseValue(s, SkipWs(s, c + 1)), acc)
    ELSE ParseFail

ObjectKey(s, k, acc) ==
    IF ~k.ok THEN ParseFail ELSE ObjectColon(s, k.v.s, SkipWs(s, k.i), acc)

ObjectMember(s, k0, acc) ==
    IF k0 <= Len(s) /\ s[k0] = "\""
    THEN ObjectKey(s, ParseStrBody(s, k0 + 1, <<>>), acc)
    ELSE ParseFail

\* after "{" or ",": "key" : value, then "," or "}"
ParseObjectItems(s, i, acc) == ObjectMember(s, SkipWs(s, i), acc)

\* after "[": "]" at j closes the empty list
ArrayOpen(s, i, j) ==
    IF j <= Len(s) /\ s[j] = "]" THEN ParseOk(PyList(<<>>), j + 1)
    ELSE ParseArrayItems(s, i, <<>>)

\* after "{": "}" at j closes the empty dict
ObjectOpen(s, i, j) ==
    IF j <= Len(s) /\ s[j] = "}" THEN ParseOk(EmptyDict, j + 1)
    ELSE ParseObjectItems(s, i, EmptyDict)

ParseValue(s, i) ==
    IF i > Len(s) THEN ParseFail
    ELSE IF s[i] = "\"" THEN ParseStrBody(s, i + 1, <<>>)
    ELSE IF s[i] = "[" THEN ArrayOpen(s, i + 1, SkipWs(s, i + 1))
    ELSE IF s[i] = "{" THEN ObjectOpen(s, i + 1, SkipWs(s, i + 1))
    ELSE IF i + 3 <= Len(s) /\ SubSeq(s, i, i + 3) = <<"n","u","l","l">>
         THEN ParseOk(PyNone, i + 4)
    ELSE ParseFail

\* the whole text must be one value between optional white space
WholeText(s, r) == IF r.ok /\ SkipWs(s, r.i) = Len(s) + 1 THEN r ELSE ParseFail

\* json.loads
json_loads(s) == WholeText(s, ParseValue(s, SkipWs(s, 1)))

\* ------------------------------------------------------------------------
\* Numbers as text
\* ------------------------------------------------------------------------

DigitOf(d) ==
    CASE d = 0 -> "0" [] d = 1 -> "1" [] d = 2 -> "2" [] d = 3 -> "3"
      [] d = 4 -> "4" [] d = 5 -> "5" [] d = 6 -> "6" [] d = 7 -> "7"
      [] d = 8 -> "8" [] d = 9 -> "9"

RECURSIVE IntToStr(_)
\* str(n) of a non-negative int
IntToStr(n) ==
    IF n < 10 THEN <<DigitOf(n)>>
    ELSE Append(IntToStr(n \div 10), DigitOf(n % 10))

ValueOfDigit(c) == CHOOSE d \in 0..9 : DigitOf(d) = c

IsIntLiteral(s) == s # <<>> /\ \A i \in 1..Len(s) : s[i] \in Digits

RECURSIVE StrToInt(_)
\* int(s) of a string of decimal digits
StrToInt(s) ==
    IF Len(s) = 1 THEN ValueOfDigit(s[1])
    ELSE 10 * StrToInt(SubSeq(s, 1, Len(s) - 1)) + ValueOfDigit(s[Len(s)])

PadWidth == 3

\* f"{n}": no padding
NoPad(n) == IntToStr(n)

\* f"{n:03d}": at least three digits, zero padded on the left
ZeroPad3(n) ==
    LET d == IntToStr(n)
    IN  [i \in 1..(PadWidth - Len(d)) |-> "0"] \o d

\* ------------------------------------------------------------------------
\* The question catalog (the parsed JSON handed to the script)
\* numero is a JSON value: absent/null, an integer, or a string
\* ------------------------------------------------------------------------

NumNone == [k |-> "none", n |-> 0, s |-> <<>>]
NumInt(n) == [k |-> "int", n |-> n, s |-> <<>>]
NumStr(s) == [k |-> "str", n |-> 0, s |-> s]

\* str(numero), as the f-string of qkey formats it
NumToStr(numero) ==
    CASE numero.k = "int" -> IntToStr(numero.n)
      [] numero.k = "str" -> numero.s
      [] numero.k = "none" -> <<"N","o","n","e">>

\* int(numero) raises ValueError on a string that is no integer literal
IntRaises(numero) == numero.k = "str" /\ ~IsIntLiteral(Strip(numero.s, SpaceChars))

IntOf(numero) ==
    IF numero.k = "int" THEN numero.n ELSE StrToInt(Strip(numero.s, SpaceChars))

Question(numero, groupe, libelle, montant) ==
    [numero |-> numero, groupe |-> groupe, sous_compte |-> <<>>,
     date |-> <<>>, libelle |-> libelle, montant |-> montant,
     piece |-> <<>>, question |-> <<>>]

GroupeF == <<"F","r","s">>
ClientDupont == <<"D","u","p","o","n","t"," ","&"," ","F","i","l","s">>
ClientAB == <<"A"," ","B">>

\* the catalogs a session may load: [client_id, questions]
CatScenario ==
    [client_id |-> ClientDupont,
     questions |-> << Question(NumInt(1), GroupeF,
                               <<"F","a","c","t","u","r","e"," ","X">>,
                               <<"1","2","3","4",".","5">>) >>]
CatTwoGroups ==
    [client_id |-> ClientAB,
     questions |-> << Question(NumInt(2), GroupeF, <<"b">>, <<>>),
                      Question(NumInt(1), <<"C","l","i">>, <<"a">>, <<>>) >>]
CatNoNumero ==
    [client_id |-> ClientAB,
     questions |-> << Question(NumNone, GroupeF, <<"a">>, <<>>),
                      Question(NumInt(0), GroupeF, <<"b">>, <<>>) >>]
CatBadNumero ==
    [client_id |-> ClientAB,
     questions |-> << Question(NumStr(<<"a","b","c">>), GroupeF, <<"a">>, <<>>) >>]
CatMixedNumero ==
    [client_id |-> ClientAB,
     questions |-> << Question(NumInt(1), GroupeF, <<"a">>, <<>>),
                      Question(NumStr(<<"a","b","c">>), GroupeF, <<"b">>, <<>>) >>]
CatSameNumero ==
    [client_id |-> ClientAB,
     questions |-> << Question(NumInt(1), GroupeF, <<"a">>, <<>>),
                      Question(NumInt(1), GroupeF, <<"b">>, <<>>) >>]
CatIntStrNumero ==
    [client_id |-> ClientAB,
     questions |-> << Question(NumInt(1), GroupeF, <<"a">>, <<>>),
                      Question(NumStr(<<"1">>), <<"C","l","i">>, <<"b">>, <<>>) >>]
CatEmpty == [client_id |-> ClientAB, questions |-> <<>>]

\* ------------------------------------------------------------------------
\* Attachment naming and store
\* ------------------------------------------------------------------------

\* an uploaded file: declared name [stem, suffix] and its bytes
Upload(stem, suffix, data) == [stem |-> stem, suffix |-> suffix, data |-> data]

FileA == Upload(<<"a">>, <<".","p","d","f">>, "bytesA")
FileB == Upload(<<"b">>, <<".","P","N","G">>, "bytesB")
FileC == Upload(<<"c">>, <<".","p","d","f">>, "bytesC")

\* str(save_path.relative_to(BASE_DIR)): client_data/uploads/<slug>/<filename>
UploadsRel == <<"c","l","i","e","n","t","_","d","a","t","a","/",
                "u","p","l","o","a","d","s","/">>

\* {slug}_{num_str}_justif_{seq}{ext}
AttachmentName(client_id, numero, suffix, seq) ==
    LET ext == Lower(suffix)
        num_str == IF numero.k # "none" THEN ZeroPad3(IntOf(numero))
                   ELSE <<"0","0","0">>
    IN  slugify(client_id) \o <<"_">> \o num_str
        \o <<"_","j","u","s","t","i","f","_">> \o IntToStr(seq) \o ext

\* the relative path save_uploaded_file returns
save_uploaded_file(client_id, numero, uploaded, seq) ==
    UploadsRel \o slugify(client_id) \o <<"/">>
    \o AttachmentName(client_id, numero, uploaded.suffix, seq)

\* ------------------------------------------------------------------------
\* Ledger: pandas DataFrame / CSV, at the level of cells
\* A CSV file is [exists, header, rows]: rows of text cells under a header.
\* A frame is [cols, data]: rows of values PyStr / PyInt / PyFloat / PyNaN /
\* PyNone aligned with cols.
\* ------------------------------------------------------------------------

PyInt(n) == [t |-> "int", s |-> IntToStr(n), a |-> <<>>]
PyFloat(txt) == [t |-> "float", s |-> txt, a |-> <<>>]
PyNaN == [t |-> "nan", s |-> <<>>, a |-> <<>>]

NoFile == [exists |-> FALSE, header |-> <<>>, rows |-> <<>>]
CsvFile(header, rows) == [exists |-> TRUE, header |-> header, rows |-> rows]

\* the strings read_csv takes for a missing value (those the inputs use)
NaValues == { <<>>, <<"N","A">>, <<"N","a","N">>, <<"n","a","n">>,
              <<"N","U","L","L">>, <<"n","u","l","l">>, <<"N","o","n","e">>,
              <<"N","/","A">>, <<"n","/","a">> }

IsFloatLiteral(s) ==
    \E i \in 2..(Len(s) - 1) :
        /\ s[i] = "."
        /\ IsIntLiteral(SubSeq(s, 1, i - 1))
        /\ IsIntLiteral(SubSeq(s, i + 1, Len(s)))

IsMissing(v) == v.t \in {"nan", "none"}

\* an int widened to float64, as to_csv then writes it
AsFloat(v) ==
    CASE v.t = "int" -> PyFloat(v.s \o <<".", "0">>)
      [] v.t = "none" -> PyNaN
      [] OTHER -> v

\* the dtype a column of values settles on: int64 when every value is an int,
\* float64 when every value is a number or missing (and one is a number),
\* object otherwise (the values stay what they are)
UnifyColumn(vals) ==
    IF \A i \in 1..Len(vals) : vals[i].t = "int" THEN vals
    ELSE IF /\ \A i \in 1..Len(vals) : vals[i].t \in {"int", "float", "nan", "none"}
            /\ \E i \in 1..Len(vals) : vals[i].t \in {"int", "float"}
         THEN [i \in 1..Len(vals) |-> AsFloat(vals[i])]
    ELSE vals

\* read_csv's parse of one column of text cells
ParseColumn(cells) ==
    LET present == {i \in 1..Len(cells) : cells[i] \notin NaValues}
        allInt == \A i \in present : IsIntLiteral(cells[i])
        allNum == \A i \in present : IsIntLiteral(cells[i]) \/ IsFloatLiteral(cells[i])
        one(i) ==
            IF i \notin present THEN PyNaN
            ELSE IF present # {} /\ allNum
                 THEN IF IsIntLiteral(cells[i]) THEN PyInt(StrToInt(cells[i]))
                      ELSE PyFloat(cells[i])
            ELSE PyStr(cells[i])
    IN  UnifyColumn([i \in 1..Len(cells) |-> one(i)])

\* a table given by its columns, back to rows
FromColumns(columns, nrows) ==
    [i \in 1..nrows |-> [j \in 1..Len(columns) |-> columns[j][i]]]

Frame(cols, data) == [cols |-> cols, data |-> data]

\* pd.read_csv(out) of a file that has a header line
read_csv(file) ==
    Frame(file.header,
          FromColumns([j \in 1..Len(file.header) |->
                          ParseColumn([i \in 1..Len(file.rows) |-> file.rows[i][j]])],
                      Len(file.rows)))

\* pd.DataFrame(rows): the columns are the keys of the row dicts, in order
DataFrame(rows) ==
    LET cols == IF rows = <<>> THEN <<>> ELSE DictKeys(rows[1])
        col(j) == UnifyColumn([i \in 1..Len(rows) |-> DictGet(rows[i], cols[j], PyNaN)])
    IN  Frame(cols, FromColumns([j \in 1..Len(cols) |-> col(j)], Len(rows)))

\* pd.concat([df_old, df_new], ignore_index=True): the union of the columns,
\* the rows of df_old then those of df_new
concat(df_old, df_new) ==
    LET extra == SelectSeq(df_new.cols, LAMBDA c : c \notin Range(df_old.cols))
        cols == df_old.cols \o extra
        cell(df, i, c) ==
            IF c \in Range(df.cols)
            THEN df.data[i][CHOOSE j \in 1..Len(df.cols) : df.cols[j] = c]
            ELSE PyNaN
        col(j) == UnifyColumn(
            [i \in 1..Len(df_old.data) |-> cell(df_old, i, cols[j])]
            \o [i \in 1..Len(df_new.data) |-> cell(df_new, i, cols[j])])
    IN  Frame(cols, FromColumns([j \in 1..Len(cols) |-> col(j)],
                                Len(df_old.data) + Len(df_new.data)))

\* df.to_csv(out, index=False): nothing is written for a missing value
to_csv(df) ==
    CsvFile(df.cols,
            [i \in 1..Len(df.data) |->
                [j \in 1..Len(df.cols) |->
                    IF IsMissing(df.data[i][j]) THEN <<>> ELSE df.data[i][j].s]])

\* append_responses_csv: [raised, file], file being the ledger it leaves;
\* read_csv raises EmptyDataError on a file with no header line
append_responses_csv(file, rows) ==
    LET df_new == DataFrame(rows)
    IN  IF file.exists
        THEN IF file.header = <<>> THEN [raised |-> TRUE, file |-> file]
             ELSE [raised |-> FALSE,
                   file |-> to_csv(concat(read_csv(file), df_new))]
        ELSE [raised |-> FALSE, file |-> to_csv(df_new)]

\* ------------------------------------------------------------------------
\* Draft store
\* A draft file is [exists, text]: the characters of drafts/<slug>.json
\* ------------------------------------------------------------------------

NoDraftFile == [exists |-> FALSE, text |-> <<>>]
DraftFile(text) == [exists |-> TRUE, text |-> text]

Key_answers == <<"a","n","s","w","e","r","s">>
Key_texte == <<"t","e","x","t","e">>
Key_files == <<"f","i","l","e","s">>

\* json.loads raised: the except branch returns {}
LoadedOrEmpty(r) == IF r.ok THEN r.v ELSE EmptyDict

\* load_draft: the parsed content, {} when there is no file or it does not parse
load_draft(file) ==
    IF file.exists THEN LoadedOrEmpty(json_loads(file.text)) ELSE EmptyDict

\* save_draft: the file write_text leaves
save_draft(answers) == DraftFile(json_dumps(answers))

\* {"answers": answers}, the value the script hands to save_draft
Wrapped(answers) == PyDict(<<KV(Key_answers, answers)>>)

\* ------------------------------------------------------------------------
\* Display filters and sort
\* ------------------------------------------------------------------------

\* the names locals() holds inside match_filters when the conditions are
\* evaluated: its parameter (selected_groups, selected_sc and search are
\* globals of the script, s is not yet bound)
MatchFiltersLocals == {"q"}

\* needle in hay
IsSubstring(needle, hay) ==
    \E i \in 1..(Len(hay) - Len(needle) + 1) :
        SubSeq(hay, i, i + Len(needle) - 1) = needle

\* match_filters with the three filters read from the widgets
match_filters_applied(q, filters) ==
    /\ q.groupe \in filters.selected_groups
    /\ q.sous_compte \in filters.selected_sc
    /\ (filters.search # <<>>
            => IsSubstring(Lower(filters.search),
                           Lower(q.libelle \o <<" ">> \o q.question)))

match_filters(q, filters) ==
    /\ ("selected_groups" \in MatchFiltersLocals => q.groupe \in filters.selected_groups)
    /\ ("selected_sc" \in MatchFiltersLocals => q.sous_compte \in filters.selected_sc)
    /\ (("search" \in MatchFiltersLocals /\ filters.search # <<>>)
            => IsSubstring(Lower(filters.search),
                           Lower(q.libelle \o <<" ">> \o q.question)))

\* the order of characters in comparisons of str (code points)
CharOrder ==
    <<"\t", "\n", "\r", " ", "\"", "&", "-", ".", "/",
      "0","1","2","3","4","5","6","7","8","9", ":", ";",
      "A","B","C","D","F","G","N","P","T","X", "\\", "_",
      "a","b","c","d","e","f","g","h","i","j","k","l","m","n","o","p","q","r",
      "s","t","u","v","w","x","y","z", "é">>

CharRank(c) == CHOOSE i \in 1..Len(CharOrder) : CharOrder[i] = c

RECURSIVE StrLess(_, _)
StrLess(a, b) ==
    IF b = <<>> THEN FALSE
    ELSE IF a = <<>> THEN TRUE
    ELSE IF Head(a) = Head(b) THEN StrLess(Tail(a), Tail(b))
    ELSE CharRank(Head(a)) < CharRank(Head(b))

\* sort_key(q): (groupe, sous_compte, numero or 0, date, libelle)
sort_key(q) ==
    [groupe |-> q.groupe, sous_compte |-> q.sous_compte,
     numero |-> IF q.numero.k = "none" \/ q.numero = NumStr(<<>>)
                THEN NumInt(0) ELSE q.numero,
     date |-> q.date, libelle |-> q.libelle]

\* a < b on sort keys raises TypeError when the first component that differs
\* is numero, an int on one side and a str on the other
KeyLessRaises(a, b) ==
    /\ a.groupe = b.groupe /\ a.sous_compte = b.sous_compte
    /\ a.numero # b.numero /\ a.numero.k # b.numero.k

KeyLess(a, b) ==
    IF a.groupe # b.groupe THEN StrLess(a.groupe, b.groupe)
    ELSE IF a.sous_compte # b.sous_compte THEN StrLess(a.sous_compte, b.sous_compte)
    ELSE IF a.numero # b.numero
         THEN IF a.numero.k = "int" THEN a.numero.n < b.numero.n
              ELSE StrLess(a.numero.s, b.numero.s)
    ELSE IF a.date # b.date THEN StrLess(a.date, b.date)
    ELSE StrLess(a.libelle, b.libelle)

RECURSIVE InsertSorted(_, _, _)
\* idx placed after every element of the sorted list that is not greater
InsertSorted(questions, sorted, idx) ==
    IF sorted = <<>> THEN <<idx>>
    ELSE IF KeyLess(sort_key(questions[idx]), sort_key(questions[sorted[Len(sorted)]]))
         THEN Append(InsertSorted(questions, SubSeq(sorted, 1, Len(sorted) - 1), idx),
                     sorted[Len(sorted)])
    ELSE Append(sorted, idx)

RECURSIVE SortIndices(_, _)
SortIndices(questions, kept) ==
    IF kept = <<>> THEN <<>>
    ELSE InsertSorted(questions,
                      SortIndices(questions, SubSeq(kept, 1, Len(kept) - 1)),
                      kept[Len(kept)])

\* the positions in the catalog of the questions that pass the filters
Kept(questions, filters) ==
    SelectSeq([i \in 1..Len(questions) |-> i],
              LAMBDA i : match_filters(questions[i], filters))

\* sorted(...) raises TypeError when it compares two keys that do not compare
SortRaises(questions, filters) ==
    LET kept == Kept(questions, filters)
    IN  \E i, j \in Range(kept) :
            i # j /\ KeyLessRaises(sort_key(questions[i]), sort_key(questions[j]))

\* questions_sorted, as positions in the catalog (stable sort)
questions_sorted(questions, filters) == SortIndices(questions, Kept(questions, filters))

\* ------------------------------------------------------------------------
\* One run of the script (Streamlit reruns it on every interaction)
\* ------------------------------------------------------------------------

\* id(q) of the question objects of a run: the catalog is parsed again at
\* every run, so the identities are any distinct values
NoNumero(questions) == {i \in 1..Len(questions) : questions[i].numero.k = "none"}

IdChoices(questions) ==
    {ids \in [NoNumero(questions) -> { <<"9","0","0","1">>, <<"9","0","0","2">> }] :
        \A i, j \in NoNumero(questions) : i # j => ids[i] # ids[j]}

\* qkey = f"q_{numero if numero is not None else id(q)}"
qkey(questions, ids, i) ==
    <<"q", "_">> \o (IF questions[i].numero.k # "none"
                     THEN NumToStr(questions[i].numero) ELSE ids[i])

\* "; ".join(files)
RECURSIVE JoinPaths(_)
JoinPaths(files) ==
    IF files = <<>> THEN <<>>
    ELSE IF Len(files) = 1 THEN files[1].s
    ELSE files[1].s \o <<";", " ">> \o JoinPaths(Tail(files))

\* The state L the question loop carries: the in-memory answers, the upload
\* directory, the count of files saved for each numero (stored), the
\* widgets rendered so far (wtxt, wup), the
\* batches saved (batches) and the exception that ended the loop (exc).
Raise(L, exc) == [L EXCEPT !.exc = exc]

RECURSIVE WriteBatch(_, _, _, _, _, _)
\* the for loop over ups: each file written under the next sequence number
WriteBatch(client_id, numero, ups, seq, store, paths) ==
    IF ups = <<>> THEN [store |-> store, paths |-> paths]
    ELSE LET rel == save_uploaded_file(client_id, numero, Head(ups), seq)
         IN  WriteBatch(client_id, numero, Tail(ups), seq + 1,
                        (rel :> Head(ups).data) @@ store, Append(paths, rel))

\* len(x) of a value that has a length
PyLen(v) == IF v.t = "str" THEN Len(v.s) ELSE Len(v.a)

\* saved_paths.extend(new_paths); answers[qkey]["files"] = saved_paths, after
\* the files of the batch are written
ExtendPaths(numero, key, ups, shown, entry, saved_paths, batch) ==
    LET written == [shown EXCEPT
                      !.uploads = batch.store,
                      !.stored = [@ EXCEPT ![numero] = @ + Len(ups)],
                      !.batches = Append(@,
                          [key |-> key, numero |-> numero, ups |-> ups,
                           before |-> saved_paths.a, paths |-> batch.paths,
                           first |-> PyLen(saved_paths) + 1,
                           stored_before |-> shown.stored[numero]])]
    IN  IF saved_paths.t # "list" THEN Raise(written, "AttributeError@240")
        ELSE [written EXCEPT
                !.answers = DictSet(@, key, DictSet(entry, Key_files,
                    PyList(saved_paths.a \o
                           [k \in 1..Len(ups) |-> PyStr(batch.paths[k])])))]

\* the batch saved from the number of files stored so far for the numero
SaveUploadsNextFree(client_id, numero, key, ups, shown, entry, saved_paths) ==
    IF ups = <<>> THEN shown
    ELSE ExtendPaths(numero, key, ups, shown, entry, saved_paths,
                     WriteBatch(client_id, numero, ups, shown.stored[numero] + 1,
                                shown.uploads, <<>>))

\* if ups: the batch is saved from seq_start = len(saved_paths) + 1
SaveUploads(client_id, numero, key, ups, shown, entry, saved_paths) ==
    IF ups = <<>> THEN shown
    ELSE IF saved_paths.t = "none" THEN Raise(shown, "TypeError@235")
    ELSE IF IntRaises(numero) THEN Raise(shown, "ValueError@110")
    ELSE ExtendPaths(numero, key, ups, shown, entry, saved_paths,
                     WriteBatch(client_id, numero, ups, PyLen(saved_paths) + 1,
                                shown.uploads, <<>>))

\* answers[qkey]["texte"] = texte, the uploader rendered, saved_paths read
FileUploader(client_id, numero, key, texte, ups, L, entry) ==
    SaveUploads(client_id, numero, key, ups,
                [L EXCEPT !.wtxt = (key :> texte) @@ @,
                          !.wup = (key :> ups) @@ @,
                          !.answers = DictSet(@, key, entry)],
                entry, DictGet(entry, Key_files, PyList(<<>>)))

\* the text area: the text the widget holds, or default_text when the
\* session has no state for the key
TextArea(client_id, numero, key, wt, wu, L, entry0) ==
    IF ~HasGet(entry0) THEN Raise(L, "AttributeError@218")
    ELSE IF key \in DOMAIN L.wtxt THEN Raise(L, "DuplicateWidgetID@219")
    ELSE FileUploader(client_id, numero, key,
                      IF key \in DOMAIN wt THEN wt[key]
                      ELSE DictGet(entry0, Key_texte, PyStr(<<>>)).s,
                      IF key \in DOMAIN wu THEN wu[key] ELSE <<>>,
                      L,
                      DictSet(entry0, Key_texte,
                              PyStr(IF key \in DOMAIN wt THEN wt[key]
                                    ELSE DictGet(entry0, Key_texte, PyStr(<<>>)).s)))

\* answers.get(qkey, {})
AnswerEntry(client_id, numero, key, wt, wu, L) ==
    IF ~HasGet(L.answers) THEN Raise(L, "AttributeError@218")
    ELSE TextArea(client_id, numero, key, wt, wu, L,
                  DictGet(L.answers, key, EmptyDict))

\* the body of the display loop for the question at position i of the catalog
LoopBody(client_id, questions, ids, wt, wu, L, i) ==
    AnswerEntry(client_id, questions[i].numero, qkey(questions, ids, i), wt, wu, L)

RECURSIVE Loop(_, _, _, _, _, _, _)
\* for q in questions_sorted, stopping at the first exception
Loop(client_id, questions, ids, wt, wu, L, order) ==
    IF order = <<>> \/ L.exc # "" THEN L
    ELSE Loop(client_id, questions, ids, wt, wu,
              LoopBody(client_id, questions, ids, wt, wu, L, Head(order)),
              Tail(order))

\* numero as the cell value of a row
NumeroCell(numero) ==
    CASE numero.k = "int" -> PyInt(numero.n)
      [] numero.k = "str" -> PyStr(numero.s)
      [] numero.k = "none" -> PyNone

\* montant as the cell value of a row: a JSON number, or "" when absent
MontantCell(montant) == IF montant = <<>> THEN PyStr(<<>>) ELSE PyFloat(montant)

\* the row with a client_id column first
RowClientIdFirst(client_id, q, info, timestamp) ==
    PyDict(<< KV(<<"c","l","i","e","n","t","_","i","d">>, PyStr(client_id)),
              KV(<<"t","i","m","e","s","t","a","m","p","_","u","t","c">>, PyStr(timestamp)),
              KV(<<"n","u","m","e","r","o">>, NumeroCell(q.numero)),
              KV(<<"d","a","t","e">>, PyStr(q.date)),
              KV(<<"l","i","b","e","l","l","e">>, PyStr(q.libelle)),
              KV(<<"m","o","n","t","a","n","t">>, MontantCell(q.montant)),
              KV(<<"p","i","e","c","e">>, PyStr(q.piece)),
              KV(<<"g","r","o","u","p","e">>, PyStr(q.groupe)),
              KV(<<"s","o","u","s","_","c","o","m","p","t","e">>, PyStr(q.sous_compte)),
              KV(<<"q","u","e","s","t","i","o","n">>, PyStr(q.question)),
              KV(<<"r","e","p","o","n","s","e","_","t","e","x","t","e">>,
                 DictGet(info, Key_texte, PyStr(<<>>))),
              KV(<<"j","u","s","t","i","f","i","c","a","t","i","f","s">>,
                 PyStr(JoinPaths(DictGet(info, Key_files, PyList(<<>>)).a))) >>)

\* the row appended for question q with the draft entry info
Row(client_id, q, info, timestamp) ==
    PyDict(<< KV(<<"t","i","m","e","s","t","a","m","p","_","u","t","c">>, PyStr(timestamp)),
              KV(<<"c","l","i","e","n","t">>, PyStr(client_id)),
              KV(<<"n","u","m","e","r","o">>, NumeroCell(q.numero)),
              KV(<<"d","a","t","e">>, PyStr(q.date)),
              KV(<<"l","i","b","e","l","l","e">>, PyStr(q.libelle)),
              KV(<<"m","o","n","t","a","n","t">>, MontantCell(q.montant)),
              KV(<<"p","i","e","c","e">>, PyStr(q.piece)),
              KV(<<"g","r","o","u","p","e">>, PyStr(q.groupe)),
              KV(<<"s","o","u","s","_","c","o","m","p","t","e">>, PyStr(q.sous_compte)),
              KV(<<"q","u","e","s","t","i","o","n">>, PyStr(q.question)),
              KV(<<"r","e","p","o","n","s","e","_","t","e","x","t","e">>,
                 DictGet(info, Key_texte, PyStr(<<>>))),
              KV(<<"j","u","s","t","i","f","i","c","a","t","i","f","s">>,
                 PyStr(JoinPaths(DictGet(info, Key_files, PyList(<<>>)).a))) >>)

\* the rows built from the catalog alone, without the answers
CommitRowsUnanswered(client_id, questions, ids, answers, timestamp, order) ==
    [k \in 1..Len(order) |-> Row(client_id, questions[order[k]], EmptyDict, timestamp)]

\* rows: one for each question of questions_sorted, in that order
CommitRows(client_id, questions, ids, answers, timestamp, order) ==
    [k \in 1..Len(order) |->
        Row(client_id, questions[order[k]],
            DictGet(answers, qkey(questions, ids, order[k]), EmptyDict), timestamp)]

\* pd.Timestamp.utcnow().isoformat(), the clock read as a count of commits
Timestamp(now) == <<"T">> \o IntToStr(now)

\* ------------------------------------------------------------------------
\* State
\* ------------------------------------------------------------------------

VARIABLES
    data,        \* the catalog the session loads: [client_id, questions]
    inputs,      \* what the user of this catalog types, drops and filters
    draftFile,   \* client_data/drafts/<slug>.json
    ledgerFile,  \* client_data/responses/<slug>.csv
    uploads,     \* client_data/uploads: relative path -> bytes
    wtxt,        \* session state of the text areas: qkey -> text
    wup,         \* session state of the file uploaders: qkey -> files held
    filters,     \* session state of the filter widgets
    clock,       \* number of commits appended so far (the time of the next one)
    stored,      \* history: numero -> number of files saved for it so far
    saved,       \* history: the draft value before / of the last save_draft
    last,        \* history: how the last run went
    faults,      \* history: the number of faults suffered (damaged file, kill)
    call,        \* a helper applied on its own: [fn, args, res]
    sess         \* the sessions open side by side on one client, when several

vars == <<data, inputs, draftFile, ledgerFile, uploads, wtxt, wup, filters, clock,
          stored, saved, last, faults, call, sess>>

MaxSaves == 2
MaxCommits == 2
MaxFaults == 1

EmptyMap == [k \in {} |-> <<>>]

\* no helper applied on its own
NoCall == [fn |-> "", args |-> <<>>, res |-> <<>>]

\* the texts a user types into a text area
TextNA == <<"N","A">>
TextQuoted == <<"o","\"","\\","\n">>

\* what a user does with a catalog: the texts typed into the text areas, the
\* batches of files dropped on an uploader in one go, and whether the display
\* filters are touched
Scenario(catalog, texts, batches, filtering) ==
    [data |-> catalog,
     inputs |-> [texts |-> texts, batches |-> batches, filtering |-> filtering]]

Scenarios ==
    { Scenario(CatScenario, {<<>>, TextNA, TextQuoted},
               {<<FileA>>, <<FileA, FileB>>}, TRUE),
      Scenario(CatTwoGroups, {TextNA}, {}, TRUE),
      Scenario(CatNoNumero, {}, {<<FileA>>}, FALSE),
      Scenario(CatBadNumero, {TextNA}, {<<FileA>>}, FALSE),
      Scenario(CatMixedNumero, {}, {}, TRUE),
      Scenario(CatSameNumero, {TextNA}, {<<FileA>>}, FALSE),
      Scenario(CatIntStrNumero, {}, {}, FALSE),
      Scenario(CatEmpty, {}, {}, FALSE) }

\* the filter widgets as first rendered: everything selected, no search
DefaultFilters(questions) ==
    [selected_groups |-> {questions[i].groupe : i \in 1..Len(questions)} \ {<<>>},
     selected_sc |-> {questions[i].sous_compte : i \in 1..Len(questions)} \ {<<>>},
     search |-> <<>>]

\* the settings the user moves between: the default, and one that selects
\* no group and searches for a text no question holds
FilterChoices(questions) ==
    { DefaultFilters(questions),
      [DefaultFilters(questions) EXCEPT !.selected_groups = {},
                                        !.search = <<"z">>] }

\* the sessions of the scenarios scs, before the first run
InitOf(scs) ==
    /\ \E sc \in scs : data = sc.data /\ inputs = sc.inputs
    /\ draftFile = NoDraftFile
    /\ ledgerFile = NoFile
    /\ uploads = EmptyMap
    /\ wtxt = EmptyMap
    /\ wup = EmptyMap
    /\ filters = DefaultFilters(data.questions)
    /\ clock = 0
    /\ stored = [n \in {data.questions[i].numero : i \in 1..Len(data.questions)}
                    |-> 0]
    /\ saved = [prev |-> EmptyDict, new |-> EmptyDict]
    /\ last = [exc |-> "", pressed |-> FALSE, shown |-> {}, batches |-> <<>>]
    /\ faults = 0
    /\ call = NoCall
    /\ sess = <<>>

Init == InitOf(Scenarios)

\* the outcome of a run: the files it leaves, the session state, how it ended
Outcome(draft, ledger, L, clk, sv, exc, pressed, shown) ==
    [draftFile |-> draft, ledgerFile |-> ledger, uploads |-> L.uploads,
     wtxt |-> L.wtxt, wup |-> L.wup, clock |-> clk, stored |-> L.stored,
     saved |-> sv,
     last |-> [exc |-> exc, pressed |-> pressed, shown |-> shown,
               batches |-> L.batches]]

\* the commit with the draft purged whether the rows were appended or not
CommitPurgesFirst(L, res, pressed) ==
    Outcome(save_draft(Wrapped(EmptyDict)),
            IF res.raised THEN ledgerFile ELSE res.file, L,
            IF res.raised THEN clock ELSE clock + 1,
            [prev |-> Wrapped(EmptyDict), new |-> Wrapped(EmptyDict)],
            IF res.raised THEN "EmptyDataError@95" ELSE "", pressed,
            {"filters", "button"})

\* the button pressed: the rows appended to the ledger, then the draft purged
Commit(L, res, pressed) ==
    IF res.raised
    THEN Outcome(save_draft(Wrapped(L.answers)), ledgerFile, L, clock,
                 [prev |-> Wrapped(L.answers), new |-> Wrapped(L.answers)],
                 "EmptyDataError@95", pressed, {"filters", "button"})
    ELSE Outcome(save_draft(Wrapped(EmptyDict)), res.file, L, clock + 1,
                 [prev |-> Wrapped(EmptyDict), new |-> Wrapped(EmptyDict)],
                 "", pressed, {"filters", "button"})

\* after the display loop: the autosave, then the button
AfterLoop(wt, wu, pressed, ids, order, L) ==
    IF L.exc # ""
    THEN Outcome(draftFile, ledgerFile, L, clock, saved, L.exc, pressed,
                 {"filters"})
    ELSE IF ~pressed
    THEN Outcome(save_draft(Wrapped(L.answers)), ledgerFile, L, clock,
                 [prev |-> Wrapped(L.answers), new |-> Wrapped(L.answers)],
                 "", pressed, {"filters", "button"})
    ELSE Commit(L, append_responses_csv(ledgerFile,
                       CommitRows(data.client_id, data.questions, ids, L.answers,
                                  Timestamp(clock + 1), order)),
                pressed)

\* the filters rendered, the questions sorted and displayed in that order
Display(wt, wu, pressed, ids, L0, order) ==
    AfterLoop(wt, wu, pressed, ids, order,
              Loop(data.client_id, data.questions, ids, wt, wu, L0, order))

\* the draft loaded: answers = draft.get("answers", {})
Loaded(wt, wu, flt, pressed, ids, draft, L0) ==
    IF ~HasGet(draft)
    THEN Outcome(draftFile, ledgerFile, L0, clock, saved,
                 "AttributeError@155", pressed, {})
    ELSE IF SortRaises(data.questions, flt)
    THEN Outcome(draftFile, ledgerFile, L0, clock, saved,
                 "TypeError@179", pressed, {"filters"})
    ELSE Display(wt, wu, pressed, ids,
                 [L0 EXCEPT !.answers = DictGet(draft, Key_answers, EmptyDict)],
                 questions_sorted(data.questions, flt))

\* the script from top to bottom, with the session state wt, wu, flt, the
\* button pressed or not, and the identities ids of this run's question objects
RunScript(wt, wu, flt, pressed, ids) ==
    Loaded(wt, wu, flt, pressed, ids, load_draft(draftFile),
           [answers |-> EmptyDict, uploads |-> uploads, stored |-> stored,
            wtxt |-> EmptyMap, wup |-> EmptyMap, exc |-> "", batches |-> <<>>])

\* the run is within the bounds of the model
RECURSIVE SumOver(_, _)
SumOver(f, S) ==
    IF S = {} THEN 0
    ELSE LET x == CHOOSE y \in S : TRUE IN f[x] + SumOver(f, S \ {x})

Lands(o, flt) ==
    /\ SumOver(o.stored, DOMAIN o.stored) <= MaxSaves
    /\ o.clock <= MaxCommits
    /\ draftFile' = o.draftFile
    /\ ledgerFile' = o.ledgerFile
    /\ uploads' = o.uploads
    /\ wtxt' = o.wtxt
    /\ wup' = o.wup
    /\ filters' = flt
    /\ clock' = o.clock
    /\ stored' = o.stored
    /\ saved' = o.saved
    /\ last' = o.last
    /\ UNCHANGED <<data, inputs, call, sess>>

\* the run ends as the script ends it
Becomes(o, flt) == Lands(o, flt) /\ UNCHANGED faults

\* one more fault, within the bound of the model
Fault == faults < MaxFaults /\ faults' = faults + 1

\* a browser session opens the page (or reloads it): no widget state
OpenSession ==
    \E ids \in IdChoices(data.questions) :
        Becomes(RunScript(EmptyMap, EmptyMap, DefaultFilters(data.questions),
                          FALSE, ids),
                DefaultFilters(data.questions))

\* the user edits the text area of a question
EditText ==
    \E k \in DOMAIN wtxt, t \in inputs.texts, ids \in IdChoices(data.questions) :
        /\ t # wtxt[k]
        /\ Becomes(RunScript((k :> t) @@ wtxt, wup, filters, FALSE, ids), filters)

\* the user drops files on the uploader of a question
AddFiles ==
    \E k \in DOMAIN wup, b \in inputs.batches, ids \in IdChoices(data.questions) :
        /\ wup[k] = <<>>
        /\ Becomes(RunScript(wtxt, (k :> b) @@ wup, filters, FALSE, ids), filters)

\* the user removes the files an uploader holds
ClearFiles ==
    \E k \in DOMAIN wup, ids \in IdChoices(data.questions) :
        /\ wup[k] # <<>>
        /\ Becomes(RunScript(wtxt, (k :> <<>>) @@ wup, filters, FALSE, ids), filters)

\* the user changes a display filter
ChangeFilters ==
    \E f \in FilterChoices(data.questions), ids \in IdChoices(data.questions) :
        /\ inputs.filtering
        /\ "filters" \in last.shown
        /\ f # filters
        /\ Becomes(RunScript(wtxt, wup, f, FALSE, ids), f)

\* the user clicks "Envoyer / Finaliser"
ClickSend ==
    \E ids \in IdChoices(data.questions) :
        /\ "button" \in last.shown
        /\ Becomes(RunScript(wtxt, wup, filters, TRUE, ids), filters)

Next ==
    \/ OpenSession
    \/ EditText
    \/ AddFiles
    \/ ClearFiles
    \/ ChangeFilters
    \/ ClickSend

Spec == Init /\ [][Next]_vars

\* ------------------------------------------------------------------------
\* The draft file damaged from outside the program
\* ------------------------------------------------------------------------

\* the session the faults are studied on: one client, one question with an
\* integer numero, two texts, one file
InitFault == InitOf({ Scenario(CatScenario, {<<>>, TextNA}, {<<FileA>>}, TRUE) })

\* the draft file of the client is replaced by a damaged one: a JSON list,
\* null, an "answers" value that is a list, or a text that is no JSON
CorruptDraft ==
    /\ Fault
    /\ draftFile.exists
    /\ \E c \in { <<"[", "]">>,
                  <<"n","u","l","l">>,
                  <<"{", "\"","a","n","s","w","e","r","s","\"", ":", " ", "[", "]", "}">>,
                  <<"{">> } :
          draftFile' = DraftFile(c)
    /\ UNCHANGED <<data, inputs, ledgerFile, uploads, wtxt, wup, filters, clock,
                   stored, saved, last, call, sess>>

NextCorrupt ==
    \/ OpenSession
    \/ EditText
    \/ AddFiles
    \/ ClearFiles
    \/ ChangeFilters
    \/ ClickSend
    \/ CorruptDraft

SpecCorrupt == InitFault /\ [][NextCorrupt]_vars

\* ------------------------------------------------------------------------
\* The process killed in the middle of a write
\* write_text and to_csv open the file for writing, which empties it, and
\* then write the new content from the start
\* ------------------------------------------------------------------------

\* the process is gone: the session and its widgets with it
Killed(o, exc) ==
    [o EXCEPT !.wtxt = EmptyMap, !.wup = EmptyMap,
              !.last = [@ EXCEPT !.exc = exc, !.shown = {}]]

\* the run o stopped inside the autosave, cut characters of the new text
\* written over the emptied file: none, the first one, half of them
SaveDraftCrashes(o) ==
    /\ o.last.exc = ""
    /\ \E cut \in {0, 1, Len(o.draftFile.text) \div 2} :
          /\ cut < Len(o.draftFile.text)
          /\ Lands([Killed(o, "Killed@86") EXCEPT
                      !.draftFile = DraftFile(SubSeq(o.draftFile.text, 1, cut)),
                      !.saved = [prev |-> load_draft(draftFile),
                                 new |-> o.saved.new]],
                   DefaultFilters(data.questions))

\* the user edits a text area and the run is killed inside save_draft
CrashInSaveDraft ==
    /\ Fault
    /\ \E k \in DOMAIN wtxt, t \in inputs.texts, ids \in IdChoices(data.questions) :
          SaveDraftCrashes(RunScript((k :> t) @@ wtxt, wup, filters, FALSE, ids))

\* the run o reached the commit and stopped inside to_csv, which was to leave
\* the ledger full: the header and some of the rows written, or not even the
\* header line
ToCsvCrashes(o, full) ==
    /\ o.last.exc = ""
    /\ \E keep \in (-1)..(Len(full.rows) - 1) :
          Lands([Killed(o, "Killed@99") EXCEPT
                   !.ledgerFile =
                       IF keep < 0 THEN CsvFile(<<>>, <<>>)
                       ELSE CsvFile(full.header, SubSeq(full.rows, 1, keep))],
                DefaultFilters(data.questions))

\* the user clicks "Envoyer / Finaliser" and the run is killed inside to_csv
CrashInToCsv ==
    /\ Fault
    /\ "button" \in last.shown
    /\ \E ids \in IdChoices(data.questions) :
          ToCsvCrashes(RunScript(wtxt, wup, filters, FALSE, ids),
                       RunScript(wtxt, wup, filters, TRUE, ids).ledgerFile)

NextCrash ==
    \/ OpenSession
    \/ EditText
    \/ AddFiles
    \/ ClearFiles
    \/ ChangeFilters
    \/ ClickSend
    \/ CrashInSaveDraft
    \/ CrashInToCsv

SpecCrash == InitFault /\ [][NextCrash]_vars

\* ------------------------------------------------------------------------
\* Two sessions side by side on the same client
\* Each runs the script for itself; the draft file, the ledger file and the
\* upload directory are shared, and a run of one session may stand between
\* any two file operations of a run of the other.
\* sess[s] is [pc, runs, wt, wu, pressed, answers, batches, seen, had_old,
\* df_old, rows, ts]: where the run of s stands, the widgets of s, the
\* in-memory answers, and the locals of append_responses_csv.
\* ------------------------------------------------------------------------

Sessions == {1, 2}

\* the runs of the two sessions together
MaxRuns == 4

IdleSession ==
    [pc |-> "idle", runs |-> 0, wt |-> EmptyMap, wu |-> EmptyMap,
     pressed |-> FALSE, answers |-> EmptyDict, batches |-> <<>>,
     seen |-> 0, had_old |-> FALSE, df_old |-> Frame(<<>>, <<>>),
     rows |-> <<>>, ts |-> <<>>]

InitConcurrent ==
    /\ data = CatScenario
    /\ inputs = Scenario(CatScenario, {}, {<<FileA, FileB>>, <<FileC>>},
                         FALSE).inputs
    /\ draftFile = NoDraftFile
    /\ ledgerFile = NoFile
    /\ uploads = EmptyMap
    /\ wtxt = EmptyMap
    /\ wup = EmptyMap
    /\ filters = DefaultFilters(data.questions)
    /\ clock = 0
    /\ stored = [n \in {data.questions[i].numero : i \in 1..Len(data.questions)}
                    |-> 0]
    /\ saved = [prev |-> EmptyDict, new |-> EmptyDict]
    /\ last = [exc |-> "", pressed |-> FALSE, shown |-> {}, batches |-> <<>>]
    /\ faults = 0
    /\ call = NoCall
    /\ sess = [s \in Sessions |-> IdleSession]

\* what a step of a session leaves alone besides the files it touches
Apart == UNCHANGED <<data, inputs, wtxt, wup, filters, saved, last, faults, call>>

\* the run of s starts with the widgets wt, wu and the button pressed or not:
\* the draft is loaded, answers = draft.get("answers", {})
Starts(s, wt, wu, pressed, draft) ==
    /\ sess' = [sess EXCEPT ![s] =
                  [@ EXCEPT !.pc = IF HasGet(draft) THEN "loaded" ELSE "failed",
                            !.runs = @ + 1, !.wt = wt, !.wu = wu,
                            !.pressed = pressed, !.batches = <<>>,
                            !.answers = IF HasGet(draft)
                                        THEN DictGet(draft, Key_answers, EmptyDict)
                                        ELSE EmptyDict]]
    /\ UNCHANGED <<draftFile, ledgerFile, uploads, clock, stored>>
    /\ Apart

\* a session opens the page
COpen(s) ==
    /\ sess[s].pc = "idle"
    /\ Starts(s, EmptyMap, EmptyMap, FALSE, load_draft(draftFile))

\* the user of a session edits a text, drops or removes files, or clicks the
\* button, and the script runs again
CInteract(s) ==
    /\ sess[s].pc = "done"
    /\ sess[1].runs + sess[2].runs < MaxRuns
    /\ \E k \in DOMAIN sess[s].wt, t \in inputs.texts \cup {<<>>},
          b \in inputs.batches \cup {<<>>}, pressed \in BOOLEAN :
          Starts(s, (k :> t) @@ sess[s].wt, (k :> b) @@ sess[s].wu, pressed,
                 load_draft(draftFile))

\* the display loop of s has run: the files of the batches are in the store
Shown(s, L) ==
    /\ sess' = [sess EXCEPT ![s] =
                  [@ EXCEPT !.pc = IF L.exc = "" THEN "shown" ELSE "failed",
                            !.wt = L.wtxt, !.wu = L.wup,
                            !.answers = L.answers, !.batches = L.batches]]
    /\ uploads' = L.uploads
    /\ stored' = L.stored
    /\ UNCHANGED <<draftFile, ledgerFile, clock>>
    /\ Apart

\* for q in questions_sorted: the widgets, the uploads saved
CShow(s) ==
    /\ sess[s].pc = "loaded"
    /\ \E ids \in IdChoices(data.questions) :
          Shown(s, Loop(data.client_id, data.questions, ids, sess[s].wt, sess[s].wu,
                        [answers |-> sess[s].answers, uploads |-> uploads,
                         stored |-> stored, wtxt |-> EmptyMap, wup |-> EmptyMap,
                         exc |-> "", batches |-> <<>>],
                        questions_sorted(data.questions, filters)))

\* save_draft(client_id, {"answers": answers}) after the loop
CAutosave(s) ==
    /\ sess[s].pc = "shown"
    /\ draftFile' = save_draft(Wrapped(sess[s].answers))
    /\ sess' = [sess EXCEPT ![s].pc = IF sess[s].pressed THEN "saved" ELSE "done"]
    /\ UNCHANGED <<ledgerFile, uploads, clock, stored>>
    /\ Apart

\* the button pressed: the timestamp, the rows, and the first half of
\* append_responses_csv, df_old = pd.read_csv(out) when out exists
CRead(s) ==
    /\ sess[s].pc = "saved"
    /\ clock' = clock + 1
    /\ \E ids \in IdChoices(data.questions) :
          sess' = [sess EXCEPT ![s] =
             [@ EXCEPT
                !.pc = IF ledgerFile.exists /\ ledgerFile.header = <<>>
                       THEN "failed" ELSE "read",
                !.ts = Timestamp(clock + 1),
                !.rows = CommitRows(data.client_id, data.questions, ids,
                                    sess[s].answers, Timestamp(clock + 1),
                                    questions_sorted(data.questions, filters)),
                !.seen = Len(ledgerFile.rows),
                !.had_old = ledgerFile.exists,
                !.df_old = IF ledgerFile.exists /\ ledgerFile.header # <<>>
                           THEN read_csv(ledgerFile) ELSE Frame(<<>>, <<>>)]]
    /\ UNCHANGED <<draftFile, ledgerFile, uploads, stored>>
    /\ Apart

\* the ledger as the write finds it, re-read and appended to in one go
WriteLedgerAtOnce(file, had_old, df_old, rows) ==
    append_responses_csv(file, rows).file

\* the second half of append_responses_csv: df = concat([df_old, df_new]) or
\* df_new, and df.to_csv(out), whatever the file holds by now
WriteLedger(file, had_old, df_old, rows) ==
    to_csv(IF had_old THEN concat(df_old, DataFrame(rows)) ELSE DataFrame(rows))

CWrite(s) ==
    /\ sess[s].pc = "read"
    /\ ledgerFile' = WriteLedger(ledgerFile, sess[s].had_old, sess[s].df_old,
                                 sess[s].rows)
    /\ sess' = [sess EXCEPT ![s].pc = "written"]
    /\ UNCHANGED <<draftFile, uploads, clock, stored>>
    /\ Apart

\* save_draft(client_id, {"answers": {}}) once the rows are appended
CPurge(s) ==
    /\ sess[s].pc = "written"
    /\ draftFile' = save_draft(Wrapped(EmptyDict))
    /\ sess' = [sess EXCEPT ![s].pc = "done"]
    /\ UNCHANGED <<ledgerFile, uploads, clock, stored>>
    /\ Apart

NextConcurrent ==
    \/ \E s \in Sessions : COpen(s)
    \/ \E s \in Sessions : CInteract(s)
    \/ \E s \in Sessions : CShow(s)
    \/ \E s \in Sessions : CAutosave(s)
    \/ \E s \in Sessions : CRead(s)
    \/ \E s \in Sessions : CWrite(s)
    \/ \E s \in Sessions : CPurge(s)

SpecConcurrent == InitConcurrent /\ [][NextConcurrent]_vars

\* ------------------------------------------------------------------------
\* The helpers on their own: slugify and the paths derived from a client id
\* ------------------------------------------------------------------------

\* DRAFTS_DIR / f"{slugify(client_id)}.json", relative to BASE_DIR
draft_path(client_id) ==
    <<"c","l","i","e","n","t","_","d","a","t","a","/","d","r","a","f","t","s","/">>
    \o slugify(client_id) \o <<".","j","s","o","n">>

\* RESP_DIR / f"{slugify(client_id)}.csv", relative to BASE_DIR
response_csv_path(client_id) ==
    <<"c","l","i","e","n","t","_","d","a","t","a","/",
      "r","e","s","p","o","n","s","e","s","/">>
    \o slugify(client_id) \o <<".","c","s","v">>

\* client_dir = UPLOADS_DIR / slugify(client_id), relative to BASE_DIR
client_dir(client_id) == UploadsRel \o slugify(client_id)

\* the raw strings tried: a capital, a small letter, an accented letter, a
\* digit, a space, a hyphen, an underscore and a punctuation sign
IdAlphabet == {"A", "b", "é", "1", " ", "-", "_", "&"}
MaxIdLen == 3

RECURSIVE StringsUpTo(_)
StringsUpTo(n) ==
    IF n = 0 THEN { <<>> }
    ELSE StringsUpTo(n - 1)
         \cup {Append(s, c) : s \in {t \in StringsUpTo(n - 1) : Len(t) = n - 1},
                               c \in IdAlphabet}

\* nothing else goes on while a helper is tried
Quiet ==
    UNCHANGED <<data, inputs, draftFile, ledgerFile, uploads, wtxt, wup, filters,
                clock, stored, saved, last, faults, sess>>

InitCall(argss) ==
    /\ data = CatEmpty
    /\ inputs = Scenario(CatEmpty, {}, {}, FALSE).inputs
    /\ draftFile = NoDraftFile
    /\ ledgerFile = NoFile
    /\ uploads = EmptyMap
    /\ wtxt = EmptyMap
    /\ wup = EmptyMap
    /\ filters = DefaultFilters(<<>>)
    /\ clock = 0
    /\ stored = EmptyMap
    /\ saved = [prev |-> EmptyDict, new |-> EmptyDict]
    /\ last = [exc |-> "", pressed |-> FALSE, shown |-> {}, batches |-> <<>>]
    /\ faults = 0
    /\ sess = <<>>
    /\ \E args \in argss : call = [NoCall EXCEPT !.args = args]

InitSlug == InitCall({ <<s>> : s \in StringsUpTo(MaxIdLen) })

\* slugify(s)
ApplySlugify ==
    /\ call.fn = ""
    /\ call' = [call EXCEPT !.fn = "slugify", !.res = <<slugify(call.args[1])>>]
    /\ Quiet

\* slugify(slugify(s))
ApplySlugifyAgain ==
    /\ call.fn = "slugify"
    /\ call' = [call EXCEPT !.fn = "slugify.slugify",
                            !.res = Append(call.res, slugify(call.res[1]))]
    /\ Quiet

NextSlug ==
    \/ ApplySlugify
    \/ ApplySlugifyAgain

SpecSlug == InitSlug /\ [][NextSlug]_vars

\* two raw client ids, one shorter than the other may be
InitPaths ==
    InitCall({ <<a, b>> : a \in StringsUpTo(MaxIdLen),
                          b \in StringsUpTo(MaxIdLen - 2) })

\* the draft file, the ledger file and the upload directory of both clients
ResolvePaths ==
    /\ call.fn = ""
    /\ call' = [call EXCEPT
                  !.fn = "paths",
                  !.res = [i \in 1..2 |->
                             << draft_path(call.args[i]),
                                response_csv_path(call.args[i]),
                                client_dir(call.args[i]) >>]]
    /\ Quiet

NextPaths == ResolvePaths

SpecPaths == InitPaths /\ [][NextPaths]_vars

\* ------------------------------------------------------------------------
\* Properties
\* ------------------------------------------------------------------------

\* C1: the sequence numbers of the attachments stored for a (client, numero)
\* are 1..N without repeat: every batch starts at one more than the number
\* of files stored for the numero so far (checked on the one-question
\* catalog with an integer numero, where every run completes).
C1_SequenceNeverReused ==
    data = CatScenario =>
        \A i \in 1..Len(last.batches) :
            last.batches[i].first = last.batches[i].stored_before + 1

\* C2: the ledger is append-only: at every step the rows it held are a prefix
\* of the rows it holds afterwards, cell for cell (checked on the
\* one-question catalog with an integer numero).
C2_LedgerAppendOnly ==
    [][(data = CatScenario /\ ledgerFile.exists) =>
          /\ Len(ledgerFile'.rows) >= Len(ledgerFile.rows)
          /\ SubSeq(ledgerFile'.rows, 1, Len(ledgerFile.rows)) = ledgerFile.rows]_vars

\* C3: k commits leave k * len(questions) rows, one row per question of the
\* catalog at each commit, whatever the display filters select.
C3_RowsPerCommit == Len(ledgerFile.rows) = clock * Len(data.questions)

\* two commits of a two-question catalog, the second under filters that
\* select no group and search for a text no question holds
C3_Witness ==
    /\ clock = 2
    /\ Len(data.questions) = 2
    /\ last.pressed
    /\ filters.selected_groups = {}
    /\ Len(ledgerFile.rows) = 4

\* C4 (as stated): the columns of the ledger are client_id, timestamp_utc,
\* numero, date, libelle, montant, piece, groupe, sous_compte, question,
\* reponse_texte, justificatifs, in that order.
C4_ColumnsAsStated ==
    (ledgerFile.exists /\ ledgerFile.rows # <<>>) =>
        ledgerFile.header =
            << <<"c","l","i","e","n","t","_","i","d">>,
               <<"t","i","m","e","s","t","a","m","p","_","u","t","c">>,
               <<"n","u","m","e","r","o">>,
               <<"d","a","t","e">>,
               <<"l","i","b","e","l","l","e">>,
               <<"m","o","n","t","a","n","t">>,
               <<"p","i","e","c","e">>,
               <<"g","r","o","u","p","e">>,
               <<"s","o","u","s","_","c","o","m","p","t","e">>,
               <<"q","u","e","s","t","i","o","n">>,
               <<"r","e","p","o","n","s","e","_","t","e","x","t","e">>,
               <<"j","u","s","t","i","f","i","c","a","t","i","f","s">> >>

\* C4 (amended): the columns of the ledger are timestamp_utc, client, numero,
\* date, libelle, montant, piece, groupe, sous_compte, question,
\* reponse_texte, justificatifs, in that order, and every row has one cell
\* per column.
C4_Columns ==
    (ledgerFile.exists /\ ledgerFile.rows # <<>>) =>
        /\ ledgerFile.header =
              << <<"t","i","m","e","s","t","a","m","p","_","u","t","c">>,
                 <<"c","l","i","e","n","t">>,
                 <<"n","u","m","e","r","o">>,
                 <<"d","a","t","e">>,
                 <<"l","i","b","e","l","l","e">>,
                 <<"m","o","n","t","a","n","t">>,
                 <<"p","i","e","c","e">>,
                 <<"g","r","o","u","p","e">>,
                 <<"s","o","u","s","_","c","o","m","p","t","e">>,
                 <<"q","u","e","s","t","i","o","n">>,
                 <<"r","e","p","o","n","s","e","_","t","e","x","t","e">>,
                 <<"j","u","s","t","i","f","i","c","a","t","i","f","s">> >>
        /\ \A i \in 1..Len(ledgerFile.rows) : Len(ledgerFile.rows[i]) = 12

\* a ledger a second commit has appended to
C4_Witness == ledgerFile.exists /\ clock = 2 /\ Len(ledgerFile.rows) >= 2

\* the entry of one question in a draft: a text, and a list of paths once a
\* file was uploaded
IsAnswer(e) ==
    /\ e.t = "dict"
    /\ DictKeys(e) \in { <<Key_texte>>, <<Key_texte, Key_files>> }
    /\ DictAt(e, Key_texte).t = "str"
    /\ HasKey(e, Key_files) =>
          /\ DictAt(e, Key_files).t = "list"
          /\ \A i \in 1..Len(DictAt(e, Key_files).a) :
                DictAt(e, Key_files).a[i].t = "str"

\* C5 (as stated): the persisted draft is the mapping QuestionKey ->
\* {"texte", "files"}: every value of the top-level mapping is an entry with
\* exactly these two keys.
C5_FlatMappingAsStated ==
    draftFile.exists =>
        \A i \in 1..Len(load_draft(draftFile).a) :
            /\ load_draft(draftFile).a[i].a[1].t = "dict"
            /\ DictKeys(load_draft(draftFile).a[i].a[1]) = <<Key_texte, Key_files>>

\* C5 (amended): load_draft returns the value the last save_draft was given,
\* and the persisted content is {"answers": mapping}, the mapping taking a
\* question key to {"texte": text} with "files" added by the first upload.
C5_RoundTrip ==
    draftFile.exists =>
        /\ load_draft(draftFile) = saved.new
        /\ DictKeys(load_draft(draftFile)) = <<Key_answers>>
        /\ DictAt(load_draft(draftFile), Key_answers).t = "dict"
        /\ \A i \in 1..Len(DictAt(load_draft(draftFile), Key_answers).a) :
              IsAnswer(DictAt(load_draft(draftFile), Key_answers).a[i].a[1])

\* a saved draft holding a text with a quote, a backslash and a newline, and
\* an entry with a file list
C5_Witness ==
    /\ draftFile.exists
    /\ \E i \in 1..Len(DictAt(saved.new, Key_answers).a) :
          /\ DictAt(DictAt(saved.new, Key_answers).a[i].a[1], Key_texte).s = TextQuoted
          /\ HasKey(DictAt(saved.new, Key_answers).a[i].a[1], Key_files)

\* C6: loading the draft never fails: whatever the draft file holds, the
\* run does not end on the error of a draft that is no mapping (line 155) or
\* of an "answers" value that is no mapping (line 218).
C6_LoadNeverFails == last.exc \notin {"AttributeError@155", "AttributeError@218"}

\* the path expected for the file of sequence number seq and extension ext
\* of client "Dupont & Fils", numero 1
DupontPath(seq, ext) ==
    <<"c","l","i","e","n","t","_","d","a","t","a","/","u","p","l","o","a","d","s","/",
      "d","u","p","o","n","t","_","f","i","l","s","/",
      "d","u","p","o","n","t","_","f","i","l","s","_","0","0","1",
      "_","j","u","s","t","i","f","_">> \o <<DigitOf(seq)>> \o ext

LowerSuffix(up) ==
    IF up = FileA THEN <<".","p","d","f">> ELSE <<".","p","n","g">>

\* C7: the i-th file of a batch uploaded for a question with existing_count
\* stored attachments goes to <uploads>/<slug>/<slug>_<numero on 3 digits>
\* _justif_<existing_count + i><lower-cased extension>, and the paths are
\* appended to the question's file list in batch order.
C7_AttachmentNames ==
    data = CatScenario =>
        \A b \in 1..Len(last.batches) :
            /\ \A i \in 1..Len(last.batches[b].ups) :
                  /\ last.batches[b].paths[i] =
                        DupontPath(Len(last.batches[b].before) + i,
                                   LowerSuffix(last.batches[b].ups[i]))
                  /\ last.batches[b].paths[i] \in DOMAIN uploads
            /\ (last.exc = "" /\ ~last.pressed) =>
                  DictAt(DictAt(DictAt(saved.new, Key_answers),
                                last.batches[b].key), Key_files).a
                    = last.batches[b].before
                      \o [i \in 1..Len(last.batches[b].ups) |->
                              PyStr(last.batches[b].paths[i])]

\* a.pdf then b.PNG dropped on the question with no stored attachment
C7_Witness ==
    /\ data = CatScenario
    /\ last.exc = ""
    /\ \E b \in 1..Len(last.batches) :
          /\ last.batches[b].ups = <<FileA, FileB>>
          /\ last.batches[b].before = <<>>

\* C8: a numero that is absent or no integer never makes an upload or a run
\* fail.
C8_NumeroNeverFatal == last.exc \notin {"ValueError@110", "TypeError@179"}

\* C9: a run killed during a commit loses no row committed earlier: the
\* ledger never holds fewer rows than before.
C9_EarlierRowsSurvive == [][Len(ledgerFile'.rows) >= Len(ledgerFile.rows)]_vars

\* C10: after a run killed inside save_draft, load_draft returns the complete
\* previous draft or the complete new one.
C10_NeverTorn == load_draft(draftFile) \in {saved.prev, saved.new}

\* C11: in a catalog whose present numero values are unique, the keys of
\* the questions of a run are pairwise distinct.
C11_KeysDistinct ==
    (\A i, j \in 1..Len(data.questions) :
        (i # j /\ data.questions[i].numero.k # "none")
            => data.questions[i].numero # data.questions[j].numero)
    => \A ids \in IdChoices(data.questions) :
          \A i, j \in 1..Len(data.questions) :
              i # j => qkey(data.questions, ids, i) # qkey(data.questions, ids, j)

\* C12: the keys of the questions are the same in every run of a session:
\* when a run that displayed every question is followed by another such run
\* of the same session (not a reload of the page), the widgets are found
\* again under the same keys and the draft gains no entry.
C12_KeysStable ==
    [][ \/ OpenSession
        \/ ("button" \in last.shown /\ "button" \in last'.shown /\ ~last'.pressed)
             => /\ DOMAIN wtxt' = DOMAIN wtxt
                /\ Len(DictAt(saved'.new, Key_answers).a)
                     <= Len(data.questions) ]_vars

\* the characters a-z, 0-9 and "_"
AsciiSlugChars ==
    {"a","b","c","d","e","f","g","h","i","j","k","l","m","n","o","p","q","r","s",
     "t","u","v","w","x","y","z","_"} \cup Digits

\* C13 as stated: slugify is idempotent, its result is never empty and holds
\* only characters of [a-z0-9_], "x" being returned when nothing is left.
C13_SlugifyAsStated ==
    /\ call.fn \in {"slugify", "slugify.slugify"}
          => /\ call.res[1] # <<>>
             /\ Range(call.res[1]) \subseteq AsciiSlugChars
             /\ (\A c \in Range(call.args[1]) : ~IsWord(c) \/ c = "_")
                   => call.res[1] = <<"x">>
    /\ call.fn = "slugify.slugify" => call.res[2] = call.res[1]

\* C13: slugify is idempotent, its result is never empty and holds only word
\* characters that are not capitals (small letters of any alphabet, accented
\* ones included, digits and "_"), "x" being returned when the string holds
\* no letter and no digit.
C13_Slugify ==
    /\ call.fn \in {"slugify", "slugify.slugify"}
          => /\ call.res[1] # <<>>
             /\ \A c \in Range(call.res[1]) : IsWord(c) /\ LowerChar(c) = c
             /\ (\A c \in Range(call.args[1]) : ~IsWord(c) \/ c = "_")
                   => call.res[1] = <<"x">>
    /\ call.fn = "slugify.slugify" => call.res[2] = call.res[1]

\* slugify applied twice to "A é", whose slug keeps the accented letter
C13_Witness ==
    /\ call.fn = "slugify.slugify"
    /\ call.args = << <<"A", " ", "é">> >>
    /\ call.res = << <<"a", "_", "é">>, <<"a", "_", "é">> >>

\* C14: two distinct raw client ids never resolve to the same slug, so the
\* draft file, the ledger file and the upload directory of one client are
\* never those of a client with a different raw id (stated for ids that
\* hold a letter or a digit, leaving aside those whose slug is the sentinel).
C14_DistinctIdsDistinctFiles ==
    (/\ call.fn = "paths"
     /\ call.args[1] # call.args[2]
     /\ \A i \in 1..2 : \E c \in Range(call.args[i]) : IsWord(c) /\ c # "_")
        => \A i \in 1..3 : call.res[1][i] # call.res[2][i]

\* the last run of session s was a commit that completed without error
Committed(s) == sess[s].pc = "done" /\ sess[s].pressed

\* the ledger holds the rows of the last commit of session s
HasRowsOf(s) ==
    \E i \in 1..Len(ledgerFile.rows) : ledgerFile.rows[i][1] = sess[s].ts

\* C15: when two sessions commit for the same client and both read the
\* ledger before either writes, the rows of one of the two commits are
\* missing from the ledger although both commits completed without error.
C15_LostCommit ==
    \A s, o \in Sessions :
        (s # o /\ Committed(s) /\ Committed(o) /\ sess[s].seen = sess[o].seen)
            => ~(HasRowsOf(s) /\ HasRowsOf(o))

\* both sessions committed on the empty ledger, which holds one row only:
\* that of session 2
C15_Witness ==
    /\ Committed(1) /\ Committed(2)
    /\ sess[1].seen = 0 /\ sess[2].seen = 0
    /\ sess[1].ts # sess[2].ts
    /\ Len(ledgerFile.rows) = 1
    /\ HasRowsOf(2) /\ ~HasRowsOf(1)

\* the file list the answers hold under a key
FilesOf(answers, key) ==
    DictGet(DictGet(answers, key, EmptyDict), Key_files, PyList(<<>>)).a

\* the run of session s is past its display loop, past its autosave
PastLoop(s) == sess[s].pc \in {"shown", "saved", "read", "written", "done"}
PastAutosave(s) == sess[s].pc \in {"saved", "read", "written", "done"}

\* C16: when two sessions upload for the same (client, numero) and compute
\* the same existing count from the draft each loaded, their first files of
\* equal extension are stored under the same name: both sessions record a
\* reference to that one file, which holds the upload of one of them, and
\* once both have saved their draft the persisted draft is that of one
\* session (or the purged one), not a merge of the two file lists.
C16_SameCountSameFile ==
    \A s, o \in Sessions :
        (/\ s # o
         /\ PastLoop(s) /\ PastLoop(o)
         /\ sess[s].batches # <<>> /\ sess[o].batches # <<>>)
        => LET bs == sess[s].batches[1]
               bo == sess[o].batches[1]
           IN  /\ (/\ bs.numero = bo.numero
                   /\ bs.first = bo.first
                   /\ Lower(bs.ups[1].suffix) = Lower(bo.ups[1].suffix))
                  => /\ bs.paths[1] = bo.paths[1]
                     /\ PyStr(bs.paths[1]) \in Range(FilesOf(sess[s].answers, bs.key))
                     /\ PyStr(bs.paths[1]) \in Range(FilesOf(sess[o].answers, bo.key))
                     /\ uploads[bs.paths[1]] \in {bs.ups[1].data, bo.ups[1].data}
               /\ (PastAutosave(s) /\ PastAutosave(o))
                  => load_draft(draftFile) \in
                        { Wrapped(sess[s].answers), Wrapped(sess[o].answers),
                          Wrapped(EmptyDict) }

\* session 1 uploaded a.pdf and b.PNG, session 2 c.pdf, each on a draft with
\* no file: both list dupont_fils_001_justif_1.pdf, which holds c.pdf, and
\* the persisted draft is that of session 2, without the second file of
\* session 1
C16_Witness ==
    /\ sess[1].pc = "done" /\ sess[2].pc = "done"
    /\ sess[1].batches # <<>> /\ sess[2].batches # <<>>
    /\ sess[1].batches[1].first = 1 /\ sess[2].batches[1].first = 1
    /\ sess[1].batches[1].ups = <<FileA, FileB>>
    /\ sess[2].batches[1].ups = <<FileC>>
    /\ sess[1].batches[1].paths[1] = sess[2].batches[1].paths[1]
    /\ uploads[sess[1].batches[1].paths[1]] = FileC.data
    /\ Len(FilesOf(sess[1].answers, sess[1].batches[1].key)) = 2
    /\ load_draft(draftFile) = Wrapped(sess[2].answers)
    /\ Len(FilesOf(load_draft(draftFile).a[1].a[1], sess[1].batches[1].key)) = 1

\* the persisted draft holds, for every widget of the run, the text entered
\* and the files the run saved
DraftHoldsRun(ans) ==
    /\ DOMAIN wtxt # {}
    /\ \A k \in DOMAIN wtxt :
          /\ HasKey(ans, k)
          /\ DictGet(DictAt(ans, k), Key_texte, PyNone) = PyStr(wtxt[k])
    /\ \A i \in 1..Len(last.batches) :
          \A j \in 1..Len(last.batches[i].paths) :
              PyStr(last.batches[i].paths[j])
                  \in Range(FilesOf(ans, last.batches[i].key))

\* C17: the persisted draft is cleared only after the ledger append of the
\* same commit has succeeded. When the append fails, the ledger is as it was
\* and the persisted draft holds the answers and file lists of the run (the
\* autosave came first), as it does when the process is killed inside the
\* append; after a successful commit the rows are in the
\* ledger and the persisted draft holds no answer; and a persisted draft
\* with no answer is found only after such a commit.
C17_PurgeAfterAppend ==
    /\ (last.pressed /\ last.exc = "EmptyDataError@95")
          => /\ ledgerFile = CsvFile(<<>>, <<>>)
             /\ DraftHoldsRun(DictGet(load_draft(draftFile), Key_answers, EmptyDict))
    /\ last.exc = "Killed@99"
          => /\ load_draft(draftFile) = saved.new
             /\ Len(DictAt(saved.new, Key_answers).a) = Len(data.questions)
    /\ (last.pressed /\ last.exc = "")
          => /\ load_draft(draftFile) = Wrapped(EmptyDict)
             /\ Len(ledgerFile.rows) >= Len(data.questions)
             /\ ledgerFile.rows[Len(ledgerFile.rows)][1] = Timestamp(clock)
    /\ (draftFile.exists /\ load_draft(draftFile) = Wrapped(EmptyDict))
          => last.pressed /\ last.exc = ""

\* a commit whose append failed on a ledger left without header line, after
\* a file was saved in the same run
C17_Witness ==
    /\ last.pressed /\ last.exc = "EmptyDataError@95"
    /\ last.batches # <<>>
    /\ FilesOf(DictAt(load_draft(draftFile), Key_answers), last.batches[1].key) # <<>>

\* the paths the run saved for a key, in the order it saved them
RECURSIVE SavedFor(_, _)
SavedFor(batches, key) ==
    IF batches = <<>> THEN <<>>
    ELSE (IF Head(batches).key = key
          THEN [j \in 1..Len(Head(batches).paths) |-> PyStr(Head(batches).paths[j])]
          ELSE <<>>) \o SavedFor(Tail(batches), key)

\* the row appended at position k of a commit is that of the question under
\* key: the text its text area holds, and the file list of the draft loaded
\* at the start of the run followed by the files the run saved, joined
RowAnswers(row, key, loaded, batches, texts) ==
    /\ row[11] = texts[key]
    /\ row[12] = JoinPaths(FilesOf(loaded, key) \o SavedFor(batches, key))

\* C18: in every row a commit appends, reponse_texte is the text entered for
\* the question and justificatifs the "; " join, in stored order, of the
\* attachment references the draft holds for its key at commit time (empty
\* when there is none), for a question without numero as for the others.
C18_RowsCarryAnswers ==
    [][ (last'.pressed /\ last'.exc = "")
        => \E ids \in IdChoices(data.questions) :
              LET order == questions_sorted(data.questions, filters')
                  base == Len(ledgerFile'.rows) - Len(order)
              IN  /\ base = Len(ledgerFile.rows)
                  /\ \A k \in 1..Len(order) :
                        /\ qkey(data.questions, ids, order[k]) \in DOMAIN wtxt'
                        /\ RowAnswers(ledgerFile'.rows[base + k],
                                      qkey(data.questions, ids, order[k]),
                                      DictGet(load_draft(draftFile), Key_answers,
                                              EmptyDict),
                                      last'.batches, wtxt') ]_vars

\* a commit whose row for the question without numero lists a file
C18_Witness ==
    /\ data = CatNoNumero
    /\ last.pressed /\ last.exc = ""
    /\ \E i \in 1..Len(ledgerFile.rows) :
          ledgerFile.rows[i][3] = <<>> /\ ledgerFile.rows[i][12] # <<>>

\* C19: uploaded files are saved only when new: a run in which every
\* uploader still holds the files it held at the run before, all of them
\* saved by then, stores no file and leaves the file lists of the draft as
\* they were.
C19_SavedOnlyWhenNew ==
    [][ (/\ wup' = wup
         /\ last.exc = "" /\ last'.exc = ""
         /\ ~last.pressed /\ ~last'.pressed)
        => /\ uploads' = uploads
           /\ \A k \in DOMAIN wup :
                 FilesOf(DictGet(saved'.new, Key_answers, EmptyDict), k)
                   = FilesOf(DictGet(saved.new, Key_answers, EmptyDict), k) ]_vars

\* C20: within one client the attachment references are unique across
\* questions: the file lists the draft holds for two different questions
\* share no path, so an upload for one never overwrites a file of another.
C20_ReferencesUnique ==
    \A ids \in IdChoices(data.questions) :
        \A i, j \in 1..Len(data.questions) :
            i # j =>
              Range(FilesOf(DictGet(saved.new, Key_answers, EmptyDict),
                            qkey(data.questions, ids, i)))
                \cap Range(FilesOf(DictGet(saved.new, Key_answers, EmptyDict),
                                   qkey(data.questions, ids, j))) = {}

====
